---- MODULE Spec2Model ----
(***************************************************************************)
(* Model of the Mochi MCP gateway worker (akornfarm/demo-repo).            *)
(*                                                                         *)
(* The repository holds four copies of the same worker:                    *)
(*   "ts"      src/src/index.ts                     (Bearer auth)          *)
(*   "bearer"  src/workers/mochi-mcp-worker.js 1-224   (Bearer auth)       *)
(*   "basic"   src/workers/mochi-mcp-worker.js 226-492 (Basic auth, CORS)  *)
(*   "bundle"  src/unnamed/part_000 (wrangler bundle of the basic worker)  *)
(*                                                                         *)
(* A request is handled in two steps, split at the worker's only           *)
(* suspension point that depends on the outside world, the upstream        *)
(* fetch() inside mochiFetch: Receive runs fetch() up to that await (or to *)
(* its return), UpstreamReplies resumes it with the upstream's outcome.    *)
(*                                                                         *)
(* JavaScript values are tagged records; strings are TLA+ strings and the  *)
(* conversions (String(), template literals, JSON.stringify, JSON.parse,   *)
(* URLSearchParams) are computed, not assumed.  JSON string escaping and   *)
(* percent-encoding are not modelled: the identifiers drawn below contain  *)
(* no character that either would change.                                  *)
(***************************************************************************)
EXTENDS Integers, Sequences, FiniteSets, TLC

(***************************************************************************)
(* Bounds of the model.                                                    *)
(***************************************************************************)
MaxInFlight == 2     \* request slots (concurrently handled requests)
MaxPage == 1         \* numeric page / pageSize arguments range over 0..MaxPage
MaxTags == 1         \* tags arrays have at most MaxTags elements

(***************************************************************************)
(* JavaScript values.                                                      *)
(***************************************************************************)
Undefined == [t |-> "undefined"]
Null == [t |-> "null"]
Str(s) == [t |-> "string", s |-> s]
Num(n) == [t |-> "number", n |-> n]
Arr(a) == [t |-> "array", a |-> a]
Obj(f) == [t |-> "object", f |-> f]

typeof(v) ==
  CASE v.t = "undefined" -> "undefined"
    [] v.t = "string" -> "string"
    [] v.t = "number" -> "number"
    [] OTHER -> "object"

isArray(v) == v.t = "array"

\* ToBoolean, as applied by `!name`, `if (page)`, `query ? a : b`
Truthy(v) ==
  CASE v.t = "undefined" -> FALSE
    [] v.t = "null" -> FALSE
    [] v.t = "string" -> v.s # ""
    [] v.t = "number" -> v.n # 0
    [] OTHER -> TRUE

RECURSIVE Join(_, _)
Join(a, sep) ==
  IF a = <<>> THEN ""
  ELSE IF Len(a) = 1 THEN Head(a)
  ELSE Head(a) \o sep \o Join(Tail(a), sep)

\* String(v) and `${v}`
ToStr(v) ==
  CASE v.t = "undefined" -> "undefined"
    [] v.t = "null" -> "null"
    [] v.t = "string" -> v.s
    [] v.t = "number" -> ToString(v.n)
    [] v.t = "array" -> Join(v.a, ",")
    [] OTHER -> "[object Object]"

Quote(s) == "\"" \o s \o "\""

\* JSON.stringify of a value that is the value of an object property; a
\* property whose value is undefined is left out by JSON.stringify, which
\* JSONMember renders as the empty member.
JSONValue(v) ==
  CASE v.t = "null" -> "null"
    [] v.t = "string" -> Quote(v.s)
    [] v.t = "number" -> ToString(v.n)
    [] v.t = "array" -> "[" \o Join([i \in 1..Len(v.a) |-> Quote(v.a[i])], ",") \o "]"
    [] OTHER -> "{}"

JSONMember(k, v) == IF v.t = "undefined" THEN <<>> ELSE << Quote(k) \o ":" \o JSONValue(v) >>

\* JSON.stringify({k1: v1, ...}) for the members given in order
JSONStringify(members) == "{" \o Join(members, ",") \o "}"

(***************************************************************************)
(* Thrown values and the outcome of running a piece of async code up to    *)
(* its next suspension: it returned, it threw, or it is awaiting the       *)
(* upstream fetch it has just issued.  `entered` lists the functions that  *)
(* were entered, in call order.                                            *)
(***************************************************************************)
Error(m) == [name |-> "Error", message |-> m]
TypeError(m) == [name |-> "TypeError", message |-> m]
SyntaxError(m) == [name |-> "SyntaxError", message |-> m]

\* String(error) / `${error}` for an Error object
ErrorToString(e) == e.name \o ": " \o e.message

Return(v, fns) == [kind |-> "return", value |-> v, entered |-> fns]
Throw(e, fns) == [kind |-> "throw", error |-> e, entered |-> fns]
Await(c, fns) == [kind |-> "await", call |-> c, entered |-> fns]

\* o.k for a value o that is not null/undefined (undefined when absent)
Prop(o, k) == IF o.t = "object" /\ k \in DOMAIN o.f THEN o.f[k] ELSE Undefined

\* reading a property of, or destructuring, null or undefined throws
Nullish(v) == v.t \in {"undefined", "null"}

(***************************************************************************)
(* Tool registry.  Descriptions are left out; the schema keeps the         *)
(* property types, the required list and the rating enum.                  *)
(***************************************************************************)
tools ==
  << [name |-> "list_decks",
      schema |-> [type |-> "object", properties |-> <<>>, required |-> <<>>]],
     [name |-> "list_cards",
      schema |-> [type |-> "object",
                  properties |-> [deckId |-> [type |-> "string"],
                                  page |-> [type |-> "number"],
                                  pageSize |-> [type |-> "number"]],
                  required |-> <<"deckId">>]],
     [name |-> "create_card",
      schema |-> [type |-> "object",
                  properties |-> [deckId |-> [type |-> "string"],
                                  front |-> [type |-> "string"],
                                  back |-> [type |-> "string"],
                                  tags |-> [type |-> "array", items |-> "string"]],
                  required |-> <<"deckId", "front", "back">>]],
     [name |-> "record_review",
      schema |-> [type |-> "object",
                  properties |-> [cardId |-> [type |-> "string"],
                                  rating |-> [type |-> "string",
                                              enum |-> <<"again", "hard", "good", "easy">>]],
                  required |-> <<"cardId", "rating">>]] >>

ToolNames == {tools[i].name : i \in 1..Len(tools)}

(***************************************************************************)
(* Upstream client (src/src/index.ts).                                     *)
(***************************************************************************)
MOCHI_API_BASE == "https://api.mochi.cards/v1"

\* Response.ok
Ok(status) == status >= 200 /\ status <= 299

\* JSON.parse of an upstream body text.  The texts the upstream may send are
\* UpstreamTexts below; every other text (including the empty one) is not JSON.
JSONParse(text) ==
  CASE text = "[]" -> [ok |-> TRUE, value |-> Arr(<<>>)]
    [] text = "null" -> [ok |-> TRUE, value |-> Null]
    [] text = "{\"id\":\"x1\"}" -> [ok |-> TRUE, value |-> Obj([id |-> Str("x1")])]
    [] OTHER -> [ok |-> FALSE, error |-> SyntaxError("Unexpected token in JSON")]

\* mochiFetch up to `await fetch(...)`: the one upstream request it issues
mochiFetch(path, init, env) ==
  Await([url |-> MOCHI_API_BASE \o path,
         path |-> path,
         method |-> init.method,
         body |-> init.body,
         headers |-> ("Authorization" :> "Bearer " \o ToStr(env.MOCHI_API_KEY))
                     @@ ("Content-Type" :> "application/json")],
        <<"mochiFetch">>)

\* mutant: an empty 2xx body is handed to JSON.parse like any other
mochiFetchResult_parsesEmpty(reply) ==
  IF reply.kind = "networkError" THEN Throw(TypeError("fetch failed"), <<>>)
  ELSE IF ~Ok(reply.status)
    THEN Throw(Error("Mochi API " \o ToString(reply.status) \o ": " \o reply.text), <<>>)
  ELSE LET parsed == JSONParse(reply.text) IN
       IF parsed.ok THEN Return(parsed.value, <<>>)
       ELSE Throw(Error("Failed to parse Mochi API response: " \o ErrorToString(parsed.error)), <<>>)

\* mutant: a failed or non-2xx upstream call is tried once more
mochiFetchResult_retries(reply) ==
  IF reply.kind = "networkError" \/ ~Ok(reply.status)
    THEN Await([url |-> MOCHI_API_BASE, path |-> "", method |-> "GET", body |-> Undefined,
                headers |-> ("Content-Type" :> "application/json")], <<"mochiFetch">>)
  ELSE IF reply.text = "" THEN Return(Null, <<>>)
  ELSE LET parsed == JSONParse(reply.text) IN
       IF parsed.ok THEN Return(parsed.value, <<>>)
       ELSE Throw(Error("Failed to parse Mochi API response: " \o ErrorToString(parsed.error)), <<>>)

\* mochiFetch from the upstream's outcome on: a network failure rejects the
\* awaited fetch; otherwise the status and the body text decide.  This part
\* of mochiFetch is the same text in all four workers.
mochiFetchResult(reply) ==
  IF reply.kind = "networkError" THEN Throw(TypeError("fetch failed"), <<>>)
  ELSE IF ~Ok(reply.status)
    THEN Throw(Error("Mochi API " \o ToString(reply.status) \o ": " \o reply.text), <<>>)
  ELSE IF reply.text = "" THEN Return(Null, <<>>)
  ELSE LET parsed == JSONParse(reply.text) IN
       IF parsed.ok THEN Return(parsed.value, <<>>)
       ELSE Throw(Error("Failed to parse Mochi API response: " \o ErrorToString(parsed.error)), <<>>)

\* a callee's outcome, seen from the caller fn that entered it
Called(fn, o) == [o EXCEPT !.entered = <<fn>> \o @]

(***************************************************************************)
(* Tool handlers (src/src/index.ts).                                       *)
(***************************************************************************)
listDecks(env) ==
  Called("listDecks", mochiFetch("/decks", [method |-> "GET", body |-> Undefined], env))

\* URLSearchParams.toString() of the entries set, in insertion order
URLSearchParams(entries) == Join(entries, "&")

\* mutant: page and pageSize are forwarded when truthy, whatever their type
listCards_truthy(env, args) ==
  IF Nullish(args)
    THEN Throw(TypeError("Cannot destructure property 'deckId' of 'args'"), <<"listCards">>)
  ELSE
  LET deckId == Prop(args, "deckId")
      page == Prop(args, "page")
      pageSize == Prop(args, "pageSize")
      params == (IF Truthy(page) THEN <<"page=" \o ToStr(page)>> ELSE <<>>)
                \o (IF Truthy(pageSize) THEN <<"page_size=" \o ToStr(pageSize)>> ELSE <<>>)
      query == URLSearchParams(params)
      path == IF query # "" THEN "/decks/" \o ToStr(deckId) \o "/cards?" \o query
                            ELSE "/decks/" \o ToStr(deckId) \o "/cards"
  IN IF typeof(deckId) # "string"
       THEN Throw(Error("list_cards requires a string deckId"), <<"listCards">>)
       ELSE Called("listCards", mochiFetch(path, [method |-> "GET", body |-> Undefined], env))

listCards(env, args) ==
  IF Nullish(args)
    THEN Throw(TypeError("Cannot destructure property 'deckId' of 'args'"), <<"listCards">>)
  ELSE
  LET deckId == Prop(args, "deckId")
      page == Prop(args, "page")
      pageSize == Prop(args, "pageSize")
      params == (IF typeof(page) = "number" THEN <<"page=" \o ToStr(page)>> ELSE <<>>)
                \o (IF typeof(pageSize) = "number" THEN <<"page_size=" \o ToStr(pageSize)>> ELSE <<>>)
      query == URLSearchParams(params)
      path == IF query # "" THEN "/decks/" \o ToStr(deckId) \o "/cards?" \o query
                            ELSE "/decks/" \o ToStr(deckId) \o "/cards"
  IN IF typeof(deckId) # "string"
       THEN Throw(Error("list_cards requires a string deckId"), <<"listCards">>)
       ELSE Called("listCards", mochiFetch(path, [method |-> "GET", body |-> Undefined], env))

\* mutant: front is not validated
createCard_frontUnchecked(env, args) ==
  IF Nullish(args)
    THEN Throw(TypeError("Cannot destructure property 'deckId' of 'args'"), <<"createCard">>)
  ELSE
  LET deckId == Prop(args, "deckId")
      front == Prop(args, "front")
      back == Prop(args, "back")
      tags == Prop(args, "tags")
      body == JSONStringify(JSONMember("front", front) \o JSONMember("back", back)
                            \o JSONMember("tags", IF isArray(tags) THEN tags ELSE Arr(<<>>)))
  IN IF typeof(deckId) # "string" \/ typeof(back) # "string"
       THEN Throw(Error("create_card requires deckId, front, and back strings"), <<"createCard">>)
     ELSE IF tags # Undefined /\ ~isArray(tags)
       THEN Throw(Error("create_card tags must be an array of strings if provided"), <<"createCard">>)
     ELSE Called("createCard",
                 mochiFetch("/decks/" \o ToStr(deckId) \o "/cards",
                            [method |-> "POST", body |-> Str(body)], env))

\* mutant: tags is defaulted but not validated
createCard_tagsUnchecked(env, args) ==
  IF Nullish(args)
    THEN Throw(TypeError("Cannot destructure property 'deckId' of 'args'"), <<"createCard">>)
  ELSE
  LET deckId == Prop(args, "deckId")
      front == Prop(args, "front")
      back == Prop(args, "back")
      tags == Prop(args, "tags")
      body == JSONStringify(JSONMember("front", front) \o JSONMember("back", back)
                            \o JSONMember("tags", IF Nullish(tags) THEN Arr(<<>>) ELSE tags))
  IN IF typeof(deckId) # "string" \/ typeof(front) # "string" \/ typeof(back) # "string"
       THEN Throw(Error("create_card requires deckId, front, and back strings"), <<"createCard">>)
     ELSE Called("createCard",
                 mochiFetch("/decks/" \o ToStr(deckId) \o "/cards",
                            [method |-> "POST", body |-> Str(body)], env))

createCard(env, args) ==
  IF Nullish(args)
    THEN Throw(TypeError("Cannot destructure property 'deckId' of 'args'"), <<"createCard">>)
  ELSE
  LET deckId == Prop(args, "deckId")
      front == Prop(args, "front")
      back == Prop(args, "back")
      tags == Prop(args, "tags")
      body == JSONStringify(JSONMember("front", front) \o JSONMember("back", back)
                            \o JSONMember("tags", IF isArray(tags) THEN tags ELSE Arr(<<>>)))
  IN IF typeof(deckId) # "string" \/ typeof(front) # "string" \/ typeof(back) # "string"
       THEN Throw(Error("create_card requires deckId, front, and back strings"), <<"createCard">>)
     ELSE IF tags # Undefined /\ ~isArray(tags)
       THEN Throw(Error("create_card tags must be an array of strings if provided"), <<"createCard">>)
     ELSE Called("createCard",
                 mochiFetch("/decks/" \o ToStr(deckId) \o "/cards",
                            [method |-> "POST", body |-> Str(body)], env))

\* mutant: the whole argument pair is forwarded in the body
recordReview_forwardsCardId(env, args) ==
  IF Nullish(args)
    THEN Throw(TypeError("Cannot destructure property 'cardId' of 'args'"), <<"recordReview">>)
  ELSE
  LET cardId == Prop(args, "cardId")
      rating == Prop(args, "rating")
      body == JSONStringify(JSONMember("cardId", cardId) \o JSONMember("rating", rating))
  IN IF typeof(cardId) # "string" \/ typeof(rating) # "string"
       THEN Throw(Error("record_review requires cardId and rating strings"), <<"recordReview">>)
       ELSE Called("recordReview",
                   mochiFetch("/cards/" \o ToStr(cardId) \o "/reviews",
                              [method |-> "POST", body |-> Str(body)], env))

recordReview(env, args) ==
  IF Nullish(args)
    THEN Throw(TypeError("Cannot destructure property 'cardId' of 'args'"), <<"recordReview">>)
  ELSE
  LET cardId == Prop(args, "cardId")
      rating == Prop(args, "rating")
      body == JSONStringify(JSONMember("rating", rating))
  IN IF typeof(cardId) # "string" \/ typeof(rating) # "string"
       THEN Throw(Error("record_review requires cardId and rating strings"), <<"recordReview">>)
       ELSE Called("recordReview",
                   mochiFetch("/cards/" \o ToStr(cardId) \o "/reviews",
                              [method |-> "POST", body |-> Str(body)], env))

(***************************************************************************)
(* Bearer variant of the JavaScript worker                                 *)
(* (src/workers/mochi-mcp-worker.js, lines 1-224).                         *)
(***************************************************************************)
mochiFetchBearer(path, init, env) ==
  Await([url |-> MOCHI_API_BASE \o path,
         path |-> path,
         method |-> init.method,
         body |-> init.body,
         headers |-> ("Authorization" :> "Bearer " \o ToStr(env.MOCHI_API_KEY))
                     @@ ("Content-Type" :> "application/json")],
        <<"mochiFetch">>)

listDecksBearer(env) ==
  Called("listDecks", mochiFetchBearer("/decks", [method |-> "GET", body |-> Undefined], env))

listCardsBearer(env, args) ==
  IF Nullish(args)
    THEN Throw(TypeError("Cannot destructure property 'deckId' of 'args'"), <<"listCards">>)
  ELSE
  LET deckId == Prop(args, "deckId")
      page == Prop(args, "page")
      pageSize == Prop(args, "pageSize")
      params == (IF Truthy(page) THEN <<"page=" \o ToStr(page)>> ELSE <<>>)
                \o (IF Truthy(pageSize) THEN <<"page_size=" \o ToStr(pageSize)>> ELSE <<>>)
      query == URLSearchParams(params)
      path == IF query # "" THEN "/decks/" \o ToStr(deckId) \o "/cards?" \o query
                            ELSE "/decks/" \o ToStr(deckId) \o "/cards"
  IN Called("listCards", mochiFetchBearer(path, [method |-> "GET", body |-> Undefined], env))

\* a ?? b
Coalesce(a, b) == IF Nullish(a) THEN b ELSE a

createCardBearer(env, args) ==
  IF Nullish(args)
    THEN Throw(TypeError("Cannot read properties of null (reading 'front')"), <<"createCard">>)
  ELSE
  LET body == JSONStringify(JSONMember("front", Prop(args, "front"))
                            \o JSONMember("back", Prop(args, "back"))
                            \o JSONMember("tags", Coalesce(Prop(args, "tags"), Arr(<<>>))))
  IN Called("createCard",
            mochiFetchBearer("/decks/" \o ToStr(Prop(args, "deckId")) \o "/cards",
                             [method |-> "POST", body |-> Str(body)], env))

recordReviewBearer(env, args) ==
  IF Nullish(args)
    THEN Throw(TypeError("Cannot read properties of null (reading 'rating')"), <<"recordReview">>)
  ELSE
  LET body == JSONStringify(JSONMember("rating", Prop(args, "rating")))
  IN Called("recordReview",
            mochiFetchBearer("/cards/" \o ToStr(Prop(args, "cardId")) \o "/reviews",
                             [method |-> "POST", body |-> Str(body)], env))

(***************************************************************************)
(* Basic-auth variant of the JavaScript worker                             *)
(* (src/workers/mochi-mcp-worker.js, lines 226-492).  The bundle           *)
(* src/unnamed/part_000 is compiled from it: its mochiFetch and tool       *)
(* handlers are the same code, only its fetch differs (fetchBundle).       *)
(***************************************************************************)
MOCHI_API_BASE_Basic == "https://app.mochi.cards/api"

\* btoa(s), for the credential strings of the model
btoa(s) ==
  CASE s = "sk_A:" -> "c2tfQTo="
    [] s = "sk_B:" -> "c2tfQjo="
    [] s = "undefined:" -> "dW5kZWZpbmVkOg=="

mochiFetchBasic(path, init, env) ==
  Await([url |-> MOCHI_API_BASE_Basic \o path,
         path |-> path,
         method |-> init.method,
         body |-> init.body,
         headers |-> ("Authorization" :> "Basic " \o btoa(ToStr(env.MOCHI_API_KEY) \o ":"))
                     @@ ("Content-Type" :> "application/json")],
        <<"mochiFetch">>)

listDecksBasic(env) ==
  Called("listDecks", mochiFetchBasic("/decks", [method |-> "GET", body |-> Undefined], env))

listCardsBasic(env, args) ==
  IF Nullish(args)
    THEN Throw(TypeError("Cannot destructure property 'deckId' of 'args'"), <<"listCards">>)
  ELSE
  LET deckId == Prop(args, "deckId")
      pageSize == Prop(args, "pageSize")
      params == (IF Truthy(deckId) THEN <<"deck-id=" \o ToStr(deckId)>> ELSE <<>>)
                \o (IF Truthy(pageSize) THEN <<"limit=" \o ToStr(pageSize)>> ELSE <<>>)
      query == URLSearchParams(params)
      path == IF query # "" THEN "/cards?" \o query ELSE "/cards"
  IN Called("listCards", mochiFetchBasic(path, [method |-> "GET", body |-> Undefined], env))

createCardBasic(env, args) ==
  IF Nullish(args)
    THEN Throw(TypeError("Cannot read properties of null (reading 'front')"), <<"createCard">>)
  ELSE
  LET \* `${args.front}\n\n---\n\n${args.back}`, its line feeds escaped by JSON.stringify
      content == ToStr(Prop(args, "front")) \o "\\n\\n---\\n\\n" \o ToStr(Prop(args, "back"))
      body == JSONStringify(JSONMember("content", Str(content))
                            \o JSONMember("deck-id", Prop(args, "deckId"))
                            \o JSONMember("manual-tags", Coalesce(Prop(args, "tags"), Arr(<<>>))))
  IN Called("createCard",
            mochiFetchBasic("/cards", [method |-> "POST", body |-> Str(body)], env))

recordReviewBasic(env, args) ==
  Throw(Error("Review recording is not available in the Mochi API. This feature may require app-level interaction."),
        <<"recordReview">>)

(***************************************************************************)
(* State.                                                                  *)
(*   worker     which of the four workers is deployed                      *)
(*   env        the worker's environment (MOCHI_API_KEY, undefined when    *)
(*              the secret is not configured)                              *)
(*   registry   content of the module-level `tools` array                  *)
(* and, for every request slot s,                                          *)
(*   pc[s]         "idle", "awaiting" (suspended in the upstream fetch),   *)
(*                 or "done" (the promise returned by fetch has settled)   *)
(*   request[s]    the inbound request                                     *)
(*   calls[s]      the upstream requests issued so far, in order           *)
(*   reply[s]      the upstream's outcome for the last call, once it came  *)
(*   responses[s]  the Responses fetch resolved with                       *)
(*   rejected[s]   TRUE when an exception escaped fetch                    *)
(*   trace[s]      the functions entered while handling the request        *)
(***************************************************************************)
VARIABLES worker, env, registry, pc, request, calls, reply, responses, rejected, trace

vars == <<worker, env, registry, pc, request, calls, reply, responses, rejected, trace>>

(***************************************************************************)
(* Dispatcher.  handleInvocation is the same text in all four workers; w   *)
(* selects the worker whose tool handlers it calls.                        *)
(***************************************************************************)
\* String.prototype.toLowerCase, for the names of the model
toLowerCase(x) ==
  CASE x = "List_Decks" -> "list_decks"
    [] x = "LIST_CARDS" -> "list_cards"
    [] OTHER -> x

\* mutant: the lookup ignores letter case
switchName_caseInsensitive(name) ==
  IF name.t # "string" THEN "default"
  ELSE IF toLowerCase(name.s) \in {"list_decks", "list_cards", "create_card", "record_review"}
    THEN toLowerCase(name.s)
  ELSE "default"

\* `switch (name)`: the case label selected, by strict equality
switchName(name) ==
  IF name = Str("list_decks") THEN "list_decks"
  ELSE IF name = Str("list_cards") THEN "list_cards"
  ELSE IF name = Str("create_card") THEN "create_card"
  ELSE IF name = Str("record_review") THEN "record_review"
  ELSE "default"

\* mutant: the registry is withheld while another request awaits the upstream
listToolsCase_whileQuiet ==
  [tools |-> IF \E s \in DOMAIN pc : pc[s] = "awaiting" THEN <<>> ELSE registry]

\* mutant: without a credential the worker lists no tools
listToolsCase_needsKey == [tools |-> IF env.MOCHI_API_KEY = Undefined THEN <<>> ELSE registry]

\* `case "listTools": return { tools }`
listToolsCase == [tools |-> registry]

\* mutant: an unrecognized method is reported as an unknown tool
unsupportedMethod_asUnknownTool(method) ==
  Throw(Error("Unknown tool: " \o ToStr(method)), <<"handleInvocation">>)

\* `default: throw new Error(`Unsupported method: ${payload.method}`)`
unsupportedMethod(method) ==
  Throw(Error("Unsupported method: " \o ToStr(method)), <<"handleInvocation">>)

handleInvocation(w, e, payload) ==
  IF Nullish(payload)
    THEN Throw(TypeError("Cannot read properties of null (reading 'method')"), <<"handleInvocation">>)
  ELSE
  LET method == Prop(payload, "method") IN
  IF method = Str("listTools") THEN Return(listToolsCase, <<"handleInvocation">>)
  ELSE IF method = Str("callTool") THEN
    LET params == Prop(payload, "params") IN
    IF Nullish(params)
      THEN Throw(TypeError("Cannot destructure property 'name' of 'payload.params'"),
                 <<"handleInvocation">>)
    ELSE
    LET name == Prop(params, "name")
        given == Prop(params, "arguments")
        args == IF given = Undefined THEN Obj(<<>>) ELSE given
        label == switchName(name)
    IN IF ~Truthy(name)
         THEN Throw(Error("Tool invocation missing name"), <<"handleInvocation">>)
       ELSE IF label = "list_decks" THEN
         Called("handleInvocation",
                CASE w = "ts" -> listDecks(e)
                  [] w = "bearer" -> listDecksBearer(e)
                  [] OTHER -> listDecksBasic(e))
       ELSE IF label = "list_cards" THEN
         Called("handleInvocation",
                CASE w = "ts" -> listCards(e, args)
                  [] w = "bearer" -> listCardsBearer(e, args)
                  [] OTHER -> listCardsBasic(e, args))
       ELSE IF label = "create_card" THEN
         Called("handleInvocation",
                CASE w = "ts" -> createCard(e, args)
                  [] w = "bearer" -> createCardBearer(e, args)
                  [] OTHER -> createCardBasic(e, args))
       ELSE IF label = "record_review" THEN
         Called("handleInvocation",
                CASE w = "ts" -> recordReview(e, args)
                  [] w = "bearer" -> recordReviewBearer(e, args)
                  [] OTHER -> recordReviewBasic(e, args))
       ELSE Throw(Error("Unknown tool: " \o ToStr(name)), <<"handleInvocation">>)
  ELSE unsupportedMethod(method)

\* handleInvocation from the settled tool handler on: `{ result: await ... }`
handleInvocationResult(o) ==
  IF o.kind = "return" THEN Return([result |-> o.value], o.entered) ELSE o

\* mutant: the manifest carries the configured credential
manifest_echoesKey(e) ==
  [name |-> "mochi",
   version |-> "0.1.0",
   description |-> "Remote MCP server backed by the Mochi spaced-repetition API.",
   capabilities |-> [tools |-> registry],
   auth |-> [type |-> "bearer",
             instructions |-> "Set the MOCHI_API_KEY secret to a Mochi personal access token.",
             token |-> ToStr(e.MOCHI_API_KEY)],
   environment |-> [variables |-> <<"MOCHI_API_KEY">>]]

manifest(e) ==
  [name |-> "mochi",
   version |-> "0.1.0",
   description |-> "Remote MCP server backed by the Mochi spaced-repetition API.",
   capabilities |-> [tools |-> registry],
   auth |-> [type |-> "bearer",
             instructions |-> "Set the MOCHI_API_KEY secret to a Mochi personal access token."],
   environment |-> [variables |-> <<"MOCHI_API_KEY">>]]

(***************************************************************************)
(* HTTP entry points.                                                      *)
(***************************************************************************)
\* Response.json(value, {status, headers})
ResponseJson(value, status, headers) ==
  [status |-> status, headers |-> headers, body |-> [json |-> TRUE, value |-> value]]

\* new Response(text, {status, headers}); text is Null for an empty body
ResponseText(text, status, headers) ==
  [status |-> status, headers |-> headers, body |-> [json |-> FALSE, text |-> text]]

JsonContentType == "Content-Type" :> "application/json"
TextContentType == "Content-Type" :> "text/plain;charset=UTF-8"

\* request.json(): the body is either the serialisation of a JSON value or a
\* text that is not JSON
requestJson(body) ==
  IF body.json THEN [ok |-> TRUE, value |-> body.value]
  ELSE [ok |-> FALSE, error |-> SyntaxError("Unexpected token in JSON")]

\* mutant: the catch handles only plain Errors and rethrows the rest
fetchTry_rethrow(o) ==
  IF o.kind = "return"
    THEN Return(ResponseJson([success |-> TRUE, data |-> o.value], 200, JsonContentType), o.entered)
  ELSE IF o.kind = "throw" /\ o.error.name = "Error"
    THEN Return(ResponseJson([success |-> FALSE, error |-> o.error.message], 400, JsonContentType),
                o.entered)
  ELSE o

\* mutant: the error envelope is sent without its status
fetchTry_errorStatus200(o) ==
  IF o.kind = "return"
    THEN Return(ResponseJson([success |-> TRUE, data |-> o.value], 200, JsonContentType), o.entered)
  ELSE IF o.kind = "throw"
    THEN Return(ResponseJson([success |-> FALSE, error |-> o.error.message], 200, JsonContentType),
                o.entered)
  ELSE o

\* src/src/index.ts: try { handleInvocation } catch
fetchTry(o) ==
  IF o.kind = "return"
    THEN Return(ResponseJson([success |-> TRUE, data |-> o.value], 200, JsonContentType), o.entered)
  ELSE IF o.kind = "throw"
    THEN Return(ResponseJson([success |-> FALSE, error |-> o.error.message], 400, JsonContentType),
                o.entered)
  ELSE o

fetch(req, e) ==
  IF req.pathname = "/.well-known/mcp.json"
    THEN Return(ResponseJson(manifest(e), 200, JsonContentType), <<"fetch", "manifest">>)
  ELSE IF req.method # "POST"
    THEN Return(ResponseText(Str("Not Found"), 404, TextContentType), <<"fetch">>)
  ELSE
  LET parsed == requestJson(req.body) IN
  IF ~parsed.ok
    THEN Return(ResponseText(Str("Invalid JSON payload: " \o ErrorToString(parsed.error)),
                             400, TextContentType), <<"fetch">>)
    ELSE Called("fetch", fetchTry(handleInvocation("ts", e, parsed.value)))

\* fetch from the upstream's outcome on
fetchResume(u) == fetchTry(handleInvocationResult(mochiFetchResult(u)))

\* src/workers/mochi-mcp-worker.js, Bearer variant
fetchTryBearer(o) ==
  IF o.kind = "return"
    THEN Return(ResponseJson([success |-> TRUE, data |-> o.value], 200, JsonContentType), o.entered)
  ELSE IF o.kind = "throw"
    THEN Return(ResponseJson([success |-> FALSE, error |-> o.error.message], 400, JsonContentType),
                o.entered)
  ELSE o

fetchBearer(req, e) ==
  IF req.pathname = "/.well-known/mcp.json"
    THEN Return(ResponseJson(manifest(e), 200, JsonContentType), <<"fetch", "manifest">>)
  ELSE IF req.method # "POST"
    THEN Return(ResponseText(Str("Not Found"), 404, TextContentType), <<"fetch">>)
  ELSE
  LET parsed == requestJson(req.body) IN
  IF ~parsed.ok
    THEN Return(ResponseText(Str("Invalid JSON payload: " \o ErrorToString(parsed.error)),
                             400, TextContentType), <<"fetch">>)
    ELSE Called("fetch", fetchTryBearer(handleInvocation("bearer", e, parsed.value)))

fetchResumeBearer(u) == fetchTryBearer(handleInvocationResult(mochiFetchResult(u)))

\* src/workers/mochi-mcp-worker.js, Basic-auth variant
corsHeaders ==
  ("Access-Control-Allow-Origin" :> "*")
  @@ ("Access-Control-Allow-Methods" :> "GET, POST, OPTIONS")
  @@ ("Access-Control-Allow-Headers" :> "Content-Type, Authorization")
  @@ ("Access-Control-Max-Age" :> "86400")

\* mutant: the error envelope is sent without the CORS headers
fetchTryBasic_errorWithoutCors(o) ==
  IF o.kind = "return"
    THEN Return(ResponseJson([success |-> TRUE, data |-> o.value], 200,
                             corsHeaders @@ JsonContentType), o.entered)
  ELSE IF o.kind = "throw"
    THEN Return(ResponseJson([success |-> FALSE, error |-> o.error.message], 400, JsonContentType),
                o.entered)
  ELSE o

fetchTryBasic(o) ==
  IF o.kind = "return"
    THEN Return(ResponseJson([success |-> TRUE, data |-> o.value], 200,
                             corsHeaders @@ JsonContentType), o.entered)
  ELSE IF o.kind = "throw"
    THEN Return(ResponseJson([success |-> FALSE, error |-> o.error.message], 400,
                             corsHeaders @@ JsonContentType), o.entered)
  ELSE o

fetchBasic(req, e) ==
  IF req.method = "OPTIONS"
    THEN Return(ResponseText(Null, 204, corsHeaders), <<"fetch">>)
  ELSE IF req.pathname = "/.well-known/mcp.json"
    THEN Return(ResponseJson(manifest(e), 200, corsHeaders @@ JsonContentType),
                <<"fetch", "manifest">>)
  ELSE IF req.method # "POST"
    THEN Return(ResponseText(Str("Not Found"), 404, corsHeaders @@ TextContentType), <<"fetch">>)
  ELSE
  LET parsed == requestJson(req.body) IN
  IF ~parsed.ok
    THEN Return(ResponseText(Str("Invalid JSON payload: " \o ErrorToString(parsed.error)),
                             400, corsHeaders @@ TextContentType), <<"fetch">>)
    ELSE Called("fetch", fetchTryBasic(handleInvocation("basic", e, parsed.value)))

fetchResumeBasic(u) == fetchTryBasic(handleInvocationResult(mochiFetchResult(u)))

\* src/unnamed/part_000: the outer try/catch of mochi_mcp_worker_default.fetch
fetchCatchBundle(o) ==
  IF o.kind = "throw"
    THEN Return(ResponseText(Str("Internal Server Error: " \o o.error.message), 500,
                             corsHeaders @@ TextContentType), o.entered)
    ELSE o

fetchBundle(req, e) ==
  fetchCatchBundle(
    IF req.method = "OPTIONS"
      THEN Return(ResponseText(Null, 204, corsHeaders), <<"fetch">>)
    ELSE IF req.pathname = "/.well-known/mcp.json"
      THEN Return(ResponseJson(manifest(e), 200, corsHeaders @@ JsonContentType),
                  <<"fetch", "manifest">>)
    ELSE IF req.pathname = "/" /\ req.method = "GET"
      THEN Return(ResponseJson(manifest(e), 200, corsHeaders @@ JsonContentType),
                  <<"fetch", "manifest">>)
    ELSE IF req.method # "POST"
      THEN Return(ResponseText(Str("Not Found"), 404, corsHeaders @@ TextContentType), <<"fetch">>)
    ELSE
    LET parsed == requestJson(req.body) IN
    IF ~parsed.ok
      THEN Return(ResponseText(Str("Invalid JSON payload: " \o ErrorToString(parsed.error)),
                               400, corsHeaders @@ TextContentType), <<"fetch">>)
      ELSE Called("fetch", fetchTryBasic(handleInvocation("bundle", e, parsed.value))))

fetchResumeBundle(u) ==
  fetchCatchBundle(fetchTryBasic(handleInvocationResult(mochiFetchResult(u))))

(***************************************************************************)
(* Inputs: deployments, inbound requests and upstream outcomes.            *)
(***************************************************************************)
Workers == {"ts", "bearer", "basic", "bundle"}

\* MOCHI_API_KEY: two distinct secrets, or undefined when not configured
Envs == {[MOCHI_API_KEY |-> k] : k \in {Undefined, Str("sk_A"), Str("sk_B")}}

Numbers == {Num(n) : n \in 0..MaxPage}

RECURSIVE TagLists(_)
TagLists(n) == IF n = 0 THEN {<<>>} ELSE TagLists(n - 1) \cup {<<"t1">> \o a : a \in TagLists(n - 1)}

\* an absent key and a key whose value is undefined read the same everywhere
\* (property access, destructuring default), so objects carry undefined for
\* the keys the request leaves out
ListCardsArgs ==
  {Obj([deckId |-> d, page |-> p, pageSize |-> z]) :
     d \in {Undefined, Str("d1"), Num(7), Str("")},
     p \in {Undefined, Str("2")} \cup Numbers,
     z \in {Undefined, Str("2")} \cup Numbers}

CreateCardArgs ==
  {Obj([deckId |-> d, front |-> f, back |-> b, tags |-> g]) :
     d \in {Undefined, Str("d1"), Num(7)},
     f \in {Undefined, Str("Q"), Num(1)},
     b \in {Undefined, Str("A"), Null},
     g \in {Undefined, Null, Str("t1")} \cup {Arr(a) : a \in TagLists(MaxTags)}}

RecordReviewArgs ==
  {Obj([cardId |-> c, rating |-> r]) :
     c \in {Undefined, Str("c1"), Num(7)},
     r \in {Undefined, Str("good"), Str("bogus"), Num(3)}}

ArgsFor(name) ==
  {Undefined, Null}
  \cup (CASE name = Str("list_cards") -> ListCardsArgs
          [] name = Str("create_card") -> CreateCardArgs
          [] name = Str("record_review") -> RecordReviewArgs
          [] name = Str("list_decks") -> {Obj([deckId |-> Str("d1")])}
          [] OTHER -> {Obj([deckId |-> Str("d1"), front |-> Str("Q"), back |-> Str("A"),
                            cardId |-> Str("c1"), rating |-> Str("good")])})

UnknownNames == {"List_Decks", "list_deck", "list_decks2", "LIST_CARDS", "delete_card"}

Names == {Str(n) : n \in ToolNames \cup UnknownNames} \cup {Undefined, Null, Str(""), Num(5), Num(0)}

Payloads ==
  {Null, Num(5), Str("listTools"), Obj(<<>>)}
  \cup {Obj([method |-> m]) : m \in {Str("listTools"), Str("ListTools"), Str("tools/list"),
                                      Str("initialize"), Str("callTool"), Num(1), Null}}
  \cup {Obj([method |-> Str("callTool"), params |-> p]) : p \in {Null, Str("list_decks")}}
  \cup {Obj([jsonrpc |-> Str("2.0"), id |-> Num(1), method |-> m]) :
          m \in {Str("initialize"), Str("tools/list")}}
  \cup {Obj([jsonrpc |-> Str("2.0"), id |-> Num(1), method |-> Str("tools/call"),
              params |-> Obj([name |-> Str("list_decks"), arguments |-> Obj(<<>>)])])}
  \cup {Obj([method |-> m, params |-> Obj([name |-> Str("list_decks")])]) :
          m \in {Str("listTools"), Str("tools/call")}}
  \cup UNION {{Obj([method |-> Str("callTool"), params |-> Obj([name |-> n, arguments |-> a])]) :
                 a \in ArgsFor(n)} : n \in Names}

Bodies ==
  {[json |-> FALSE, text |-> t] : t \in {"", "{not json", "listTools"}}
  \cup {[json |-> TRUE, value |-> v] : v \in Payloads}

Paths == {"/", "/mcp", "/.well-known/mcp.json"}

Requests ==
  {[method |-> "POST", pathname |-> p, body |-> b] : p \in Paths, b \in Bodies}
  \cup {[method |-> m, pathname |-> p, body |-> [json |-> FALSE, text |-> ""]] :
          m \in {"GET", "OPTIONS", "PUT"}, p \in Paths}

UpstreamStatuses == {200, 201, 299, 300, 404, 500}
UpstreamTexts == {"", "[]", "null", "{\"id\":\"x1\"}", "server exploded"}

Replies ==
  {[kind |-> "response", status |-> c, text |-> t] : c \in UpstreamStatuses, t \in UpstreamTexts}
  \cup {[kind |-> "networkError"]}

(***************************************************************************)
(* The state machine.                                                      *)
(***************************************************************************)
Slots == 1..MaxInFlight

NoRequest == [method |-> "none"]
NoReply == [kind |-> "none"]

Init ==
  /\ worker \in Workers
  /\ env \in Envs
  /\ registry = tools
  /\ pc = [s \in Slots |-> "idle"]
  /\ request = [s \in Slots |-> NoRequest]
  /\ calls = [s \in Slots |-> <<>>]
  /\ reply = [s \in Slots |-> NoReply]
  /\ responses = [s \in Slots |-> <<>>]
  /\ rejected = [s \in Slots |-> FALSE]
  /\ trace = [s \in Slots |-> <<>>]

\* the deployed worker's fetch, up to its first suspension
Start(req) ==
  CASE worker = "ts" -> fetch(req, env)
    [] worker = "bearer" -> fetchBearer(req, env)
    [] worker = "basic" -> fetchBasic(req, env)
    [] worker = "bundle" -> fetchBundle(req, env)

\* the deployed worker's fetch, resumed with the upstream's outcome
Resume(u) ==
  CASE worker = "ts" -> fetchResume(u)
    [] worker = "bearer" -> fetchResumeBearer(u)
    [] worker = "basic" -> fetchResumeBasic(u)
    [] worker = "bundle" -> fetchResumeBundle(u)

\* the effect on slot s of fetch having run to outcome o
Advance(s, o) ==
  /\ trace' = [trace EXCEPT ![s] = @ \o o.entered]
  /\ IF o.kind = "await"
       THEN /\ pc' = [pc EXCEPT ![s] = "awaiting"]
            /\ calls' = [calls EXCEPT ![s] = Append(@, o.call)]
            /\ UNCHANGED <<responses, rejected>>
     ELSE IF o.kind = "return"
       THEN /\ pc' = [pc EXCEPT ![s] = "done"]
            /\ responses' = [responses EXCEPT ![s] = Append(@, o.value)]
            /\ UNCHANGED <<calls, rejected>>
     ELSE /\ pc' = [pc EXCEPT ![s] = "done"]
          /\ rejected' = [rejected EXCEPT ![s] = TRUE]
          /\ UNCHANGED <<calls, responses>>

\* the platform hands an inbound request to fetch
Receive(s, req) ==
  /\ pc[s] = "idle"
  /\ request' = [request EXCEPT ![s] = req]
  /\ Advance(s, Start(req))
  /\ UNCHANGED <<worker, env, registry, reply>>

\* the upstream answers (or the connection fails) and fetch resumes
UpstreamReplies(s, u) ==
  /\ pc[s] = "awaiting"
  /\ reply' = [reply EXCEPT ![s] = u]
  /\ Advance(s, Resume(u))
  /\ UNCHANGED <<worker, env, registry, request>>

\* the response has been delivered; the slot is free for the next request
Retire(s) ==
  /\ pc[s] = "done"
  /\ pc' = [pc EXCEPT ![s] = "idle"]
  /\ request' = [request EXCEPT ![s] = NoRequest]
  /\ calls' = [calls EXCEPT ![s] = <<>>]
  /\ reply' = [reply EXCEPT ![s] = NoReply]
  /\ responses' = [responses EXCEPT ![s] = <<>>]
  /\ rejected' = [rejected EXCEPT ![s] = FALSE]
  /\ trace' = [trace EXCEPT ![s] = <<>>]
  /\ UNCHANGED <<worker, env, registry>>

\* requests handled one at a time, over all inbound requests
Next ==
  \/ \E req \in Requests : Receive(1, req)
  \/ \E u \in Replies : UpstreamReplies(1, u)
  \/ Retire(1)

Spec == Init /\ [][Next]_vars

(***************************************************************************)
(* Concurrent requests.  The platform may call fetch again while earlier   *)
(* invocations are suspended at their upstream fetch; every slot is an     *)
(* invocation, and the steps of different slots interleave freely.         *)
(***************************************************************************)
CallTool(n, a) ==
  [method |-> "POST", pathname |-> "/",
   body |-> [json |-> TRUE,
             value |-> Obj([method |-> Str("callTool"),
                            params |-> Obj([name |-> Str(n), arguments |-> a])])]]

ConcRequests ==
  { [method |-> "POST", pathname |-> "/",
     body |-> [json |-> TRUE, value |-> Obj([method |-> Str("listTools")])]],
    CallTool("list_decks", Obj(<<>>)),
    CallTool("list_cards", Obj([deckId |-> Str("d1"), page |-> Num(1), pageSize |-> Undefined])),
    CallTool("create_card", Obj([deckId |-> Str("d1"), front |-> Undefined,
                                 back |-> Str("A"), tags |-> Undefined])),
    [method |-> "POST", pathname |-> "/", body |-> [json |-> FALSE, text |-> "{not json"]],
    [method |-> "GET", pathname |-> "/.well-known/mcp.json", body |-> [json |-> FALSE, text |-> ""]] }

ConcReplies ==
  { [kind |-> "response", status |-> 200, text |-> "[]"],
    [kind |-> "response", status |-> 200, text |-> ""],
    [kind |-> "response", status |-> 500, text |-> "server exploded"],
    [kind |-> "networkError"] }

NextConc ==
  \/ \E s \in Slots : \E req \in ConcRequests : Receive(s, req)
  \/ \E s \in Slots : \E u \in ConcReplies : UpstreamReplies(s, u)
  \/ \E s \in Slots : Retire(s)

SpecConc == Init /\ [][NextConc]_vars

(***************************************************************************)
(* Vocabulary of the properties: the request in slot s and what became of  *)
(* it.  The request fields are read only once the slot holds a request.    *)
(***************************************************************************)
Handled(s) == pc[s] # "idle"

\* a POST that reaches request.json()
IsPost(s) ==
  /\ Handled(s)
  /\ request[s].method = "POST"
  /\ request[s].pathname # "/.well-known/mcp.json"

\* ... whose body is well-formed JSON
WellFormed(s) == IsPost(s) /\ request[s].body.json

Payload(s) == request[s].body.value

IsCallTool(s) == WellFormed(s) /\ Prop(Payload(s), "method") = Str("callTool")

Params(s) == Prop(Payload(s), "params")

\* the tool named by a callTool request, and the arguments its handler gets
ToolName(s) == Prop(Params(s), "name")

ToolArgs(s) ==
  IF Prop(Params(s), "arguments") = Undefined THEN Obj(<<>>) ELSE Prop(Params(s), "arguments")

\* a callTool request for the registered tool n
Calls(s, n) == IsCallTool(s) /\ ~Nullish(Params(s)) /\ ToolName(s) = Str(n)

TheResponse(s) == responses[s][1]

\* the simple-protocol error envelope with message m and HTTP status c
IsErrorEnvelope(r, c, m) ==
  /\ r.status = c
  /\ r.body.json
  /\ r.body.value = [success |-> FALSE, error |-> m]

\* the request was answered with some {success:false, error} envelope
AnsweredWithError(s) ==
  /\ pc[s] = "done"
  /\ Len(responses[s]) = 1
  /\ TheResponse(s).body.json
  /\ DOMAIN TheResponse(s).body.value = {"success", "error"}
  /\ TheResponse(s).body.value.success = FALSE

NoUpstreamCall(s) == calls[s] = <<>> /\ reply[s] = NoReply

(***************************************************************************)
(* C1: in src/src/index.ts every request handled by fetch completes with   *)
(* exactly one Response and fetch never throws or rejects, whatever the    *)
(* method, path, body and upstream outcome: no exception escapes, a        *)
(* settled request has exactly one Response, an unsettled one has none and *)
(* is suspended in an upstream call every outcome of which settles it with *)
(* a Response.                                                             *)
(***************************************************************************)
C1_ExactlyOneResponse ==
  worker = "ts" =>
    \A s \in Slots :
      /\ ~rejected[s]
      /\ pc[s] = "done" => Len(responses[s]) = 1
      /\ pc[s] # "done" => responses[s] = <<>>
      /\ pc[s] = "awaiting" =>
           /\ Len(calls[s]) = 1
           /\ \A u \in Replies : fetchResume(u).kind = "return"

\* a request whose upstream call failed at the network level was answered
C1_Witness ==
  /\ worker = "ts"
  /\ pc[1] = "done"
  /\ reply[1] = [kind |-> "networkError"]
  /\ Len(responses[1]) = 1
  /\ ~rejected[1]

(***************************************************************************)
(* C2: in src/src/index.ts a callTool request naming a tool other than     *)
(* list_decks, list_cards, create_card, record_review is answered with the *)
(* unknown-tool error and issues no upstream call; the match is exact, so  *)
(* List_Decks, list_deck, list_decks2 and LIST_CARDS are unknown too.      *)
(* A request names a tool when params.name is truthy: a missing, null,     *)
(* empty or zero name is the separate "Tool invocation missing name".      *)
(***************************************************************************)
RegisteredNames == {"list_decks", "list_cards", "create_card", "record_review"}

NamesUnknownTool(s) ==
  /\ IsCallTool(s)
  /\ ~Nullish(Params(s))
  /\ Truthy(ToolName(s))
  /\ ToolName(s) \notin {Str(n) : n \in RegisteredNames}

C2_UnknownToolNeverReachesUpstream ==
  worker = "ts" =>
    \A s \in Slots :
      NamesUnknownTool(s) =>
        /\ pc[s] = "done"
        /\ NoUpstreamCall(s)
        /\ Len(responses[s]) = 1
        /\ IsErrorEnvelope(TheResponse(s), 400, "Unknown tool: " \o ToStr(ToolName(s)))
        /\ trace[s] = <<"fetch", "handleInvocation">>

C2_Witness ==
  /\ worker = "ts"
  /\ NamesUnknownTool(1)
  /\ ToolName(1) = Str("List_Decks")
  /\ pc[1] = "done"
  /\ IsErrorEnvelope(TheResponse(1), 400, "Unknown tool: List_Decks")
  /\ calls[1] = <<>>

(***************************************************************************)
(* C3: in src/src/index.ts a create_card call whose arguments lack front   *)
(* or back, or whose deckId, front or back is not a string, is answered    *)
(* with an error and issues no upstream call (mochiFetch is never          *)
(* entered): validation precedes network I/O.                              *)
(***************************************************************************)
InvalidCreateCard(s) ==
  /\ Calls(s, "create_card")
  /\ \/ typeof(Prop(ToolArgs(s), "deckId")) # "string"
     \/ typeof(Prop(ToolArgs(s), "front")) # "string"
     \/ typeof(Prop(ToolArgs(s), "back")) # "string"

C3_CreateCardValidatesBeforeIO ==
  worker = "ts" =>
    \A s \in Slots :
      InvalidCreateCard(s) =>
        /\ AnsweredWithError(s)
        /\ TheResponse(s).status = 400
        /\ NoUpstreamCall(s)
        /\ \A i \in 1..Len(trace[s]) : trace[s][i] # "mochiFetch"
        /\ ~Nullish(ToolArgs(s)) =>
             TheResponse(s).body.value.error = "create_card requires deckId, front, and back strings"

\* deckId and back are strings, only front is missing
C3_Witness ==
  /\ worker = "ts"
  /\ InvalidCreateCard(1)
  /\ Prop(ToolArgs(1), "deckId") = Str("d1")
  /\ Prop(ToolArgs(1), "front") = Undefined
  /\ Prop(ToolArgs(1), "back") = Str("A")
  /\ AnsweredWithError(1)
  /\ calls[1] = <<>>

(***************************************************************************)
(* C4 (as claimed; the code violates it): in src/src/index.ts, when        *)
(* MOCHI_API_KEY is absent from the environment every callTool invocation  *)
(* fails with an error and no upstream request is issued.                  *)
(***************************************************************************)
C4_MissingKeyFailsBeforeIO ==
  (worker = "ts" /\ env.MOCHI_API_KEY = Undefined) =>
    \A s \in Slots :
      (IsCallTool(s) /\ ~Nullish(Params(s)) /\ ToolName(s) \in {Str(n) : n \in RegisteredNames}) =>
        /\ calls[s] = <<>>
        /\ AnsweredWithError(s)

(***************************************************************************)
(* C5: in src/src/index.ts the answer to a tool call that reached the      *)
(* upstream is a function of the upstream's (status, body) alone: a status *)
(* outside 200-299 gives HTTP 400 {success:false, error:"Mochi API         *)
(* <status>: <body>"}; a 2xx with an empty body gives HTTP 200             *)
(* {success:true, data:{result:null}}; a 2xx whose body is JSON gives the  *)
(* parsed value as result; a 2xx whose non-empty body is not JSON gives    *)
(* success:false with a parse-failure message that is none of the          *)
(* "Mochi API <status>: <body>" messages.                                  *)
(***************************************************************************)
ValidJsonTexts == {"[]", "null", "{\"id\":\"x1\"}"}

ParseFailureMessage ==
  "Failed to parse Mochi API response: SyntaxError: Unexpected token in JSON"

UpstreamErrorMessages ==
  {"Mochi API " \o ToString(c) \o ": " \o t : c \in UpstreamStatuses, t \in UpstreamTexts}

C5_OutcomeIsFunctionOfReply ==
  worker = "ts" =>
    \A s \in Slots :
      (pc[s] = "done" /\ reply[s].kind = "response") =>
        LET u == reply[s]
            r == TheResponse(s)
            success == u.status \in 200..299
        IN /\ Len(responses[s]) = 1
           /\ ~success =>
                IsErrorEnvelope(r, 400, "Mochi API " \o ToString(u.status) \o ": " \o u.text)
           /\ (success /\ u.text = "") =>
                r = ResponseJson([success |-> TRUE, data |-> [result |-> Null]], 200, JsonContentType)
           /\ (success /\ u.text \in ValidJsonTexts) =>
                r = ResponseJson([success |-> TRUE, data |-> [result |-> JSONParse(u.text).value]],
                                 200, JsonContentType)
           /\ (success /\ u.text # "" /\ u.text \notin ValidJsonTexts) =>
                /\ IsErrorEnvelope(r, 400, ParseFailureMessage)
                /\ ParseFailureMessage \notin UpstreamErrorMessages

\* upstream 500 "server exploded"
C5_Witness ==
  /\ worker = "ts"
  /\ pc[1] = "done"
  /\ reply[1] = [kind |-> "response", status |-> 500, text |-> "server exploded"]
  /\ IsErrorEnvelope(TheResponse(1), 400, "Mochi API 500: server exploded")

(***************************************************************************)
(* C6: in src/src/index.ts, list_cards with a missing or non-string deckId *)
(* is a validation error with no upstream call; with a string deckId it    *)
(* issues exactly one GET to /decks/<deckId>/cards whose query carries     *)
(* page only when page is a number and page_size only when pageSize is a   *)
(* number, any other page / pageSize being left out without an error.      *)
(***************************************************************************)
C6_Query(args) ==
  LET page == Prop(args, "page")
      pageSize == Prop(args, "pageSize")
      both == page.t = "number" /\ pageSize.t = "number"
  IN (IF page.t = "number" THEN "page=" \o ToString(page.n) ELSE "")
     \o (IF both THEN "&" ELSE "")
     \o (IF pageSize.t = "number" THEN "page_size=" \o ToString(pageSize.n) ELSE "")

C6_ListCardsForwarding ==
  worker = "ts" =>
    \A s \in Slots :
      Calls(s, "list_cards") =>
        LET args == ToolArgs(s)
            deckId == Prop(args, "deckId")
        IN IF deckId.t = "string"
             THEN /\ Len(calls[s]) = 1
                  /\ calls[s][1].method = "GET"
                  /\ calls[s][1].body = Undefined
                  /\ calls[s][1].path =
                       "/decks/" \o deckId.s \o "/cards"
                       \o (IF C6_Query(args) = "" THEN "" ELSE "?" \o C6_Query(args))
                  /\ calls[s][1].url = "https://api.mochi.cards/v1" \o calls[s][1].path
                  /\ pc[s] = "done" => reply[s] # NoReply
             ELSE /\ AnsweredWithError(s)
                  /\ TheResponse(s).status = 400
                  /\ NoUpstreamCall(s)
                  /\ ~Nullish(args) =>
                       TheResponse(s).body.value.error = "list_cards requires a string deckId"

\* a non-numeric page is dropped, a pageSize of 0 is forwarded
C6_Witness ==
  /\ worker = "ts"
  /\ Calls(1, "list_cards")
  /\ ToolArgs(1) = Obj([deckId |-> Str("d1"), page |-> Str("2"), pageSize |-> Num(0)])
  /\ pc[1] = "awaiting"
  /\ Len(calls[1]) = 1
  /\ calls[1][1].path = "/decks/d1/cards?page_size=0"

(***************************************************************************)
(* C7: record_review forwards or refuses.  In src/src/index.ts, with a     *)
(* string cardId c and a string rating r it issues exactly one upstream    *)
(* POST to /cards/<c>/reviews whose body is exactly {"rating": r}.  In the *)
(* Basic-auth worker and its bundle it is answered, whatever the           *)
(* arguments, with the success:false not-supported error and no upstream   *)
(* call.                                                                   *)
(***************************************************************************)
NotSupportedMessage ==
  "Review recording is not available in the Mochi API. This feature may require app-level interaction."

C7_RecordReviewForwardsOrRefuses ==
  \A s \in Slots :
    Calls(s, "record_review") =>
      LET args == ToolArgs(s)
          cardId == Prop(args, "cardId")
          rating == Prop(args, "rating")
      IN /\ (worker = "ts" /\ cardId.t = "string" /\ rating.t = "string") =>
              /\ Len(calls[s]) = 1
              /\ calls[s][1].method = "POST"
              /\ calls[s][1].path = "/cards/" \o cardId.s \o "/reviews"
              /\ calls[s][1].body = Str("{\"rating\":\"" \o rating.s \o "\"}")
         /\ worker \in {"basic", "bundle"} =>
              /\ pc[s] = "done"
              /\ NoUpstreamCall(s)
              /\ Len(responses[s]) = 1
              /\ IsErrorEnvelope(TheResponse(s), 400, NotSupportedMessage)

C7_Witness ==
  /\ worker = "ts"
  /\ Calls(1, "record_review")
  /\ ToolArgs(1) = Obj([cardId |-> Str("c1"), rating |-> Str("good")])
  /\ Len(calls[1]) = 1
  /\ calls[1][1].method = "POST"
  /\ calls[1][1].path = "/cards/c1/reviews"
  /\ calls[1][1].body = Str("{\"rating\":\"good\"}")

(***************************************************************************)
(* C8 (as claimed; the code violates it): in src/src/index.ts a POST whose *)
(* body is not well-formed JSON is answered with HTTP 400 in the envelope  *)
(* {success:false, error:<message>}, handleInvocation and the tool         *)
(* handlers are not entered and no upstream call is issued.                *)
(***************************************************************************)
Malformed(s) == IsPost(s) /\ ~request[s].body.json

C8_MalformedJsonEnvelope ==
  worker = "ts" =>
    \A s \in Slots :
      Malformed(s) =>
        /\ pc[s] = "done"
        /\ Len(responses[s]) = 1
        /\ TheResponse(s).status = 400
        /\ trace[s] = <<"fetch">>
        /\ NoUpstreamCall(s)
        /\ AnsweredWithError(s)

(***************************************************************************)
(* C9: in src/src/index.ts every well-formed listTools request (a POST     *)
(* that reaches the dispatcher with method "listTools") is answered with   *)
(* HTTP 200 {success:true, data:{tools}}, tools being the static           *)
(* four-entry registry in its order, with or without MOCHI_API_KEY, after  *)
(* any earlier requests, and without an upstream call.                     *)
(***************************************************************************)
IsListTools(s) == WellFormed(s) /\ Prop(Payload(s), "method") = Str("listTools")

C9_ListToolsIsRegistry ==
  worker = "ts" =>
    \A s \in Slots :
      IsListTools(s) =>
        /\ pc[s] = "done"
        /\ NoUpstreamCall(s)
        /\ responses[s] =
             << ResponseJson([success |-> TRUE, data |-> [tools |-> tools]], 200, JsonContentType) >>
        /\ [i \in 1..4 |-> TheResponse(s).body.value.data.tools[i].name]
             = <<"list_decks", "list_cards", "create_card", "record_review">>

\* listTools answered in full although no credential is configured
C9_Witness ==
  /\ worker = "ts"
  /\ env.MOCHI_API_KEY = Undefined
  /\ IsListTools(1)
  /\ pc[1] = "done"
  /\ TheResponse(1).status = 200
  /\ Len(TheResponse(1).body.value.data.tools) = 4

(***************************************************************************)
(* C10 (as claimed; the code violates it): in src/src/index.ts a           *)
(* well-formed POST whose top-level method is neither listTools nor        *)
(* callTool is answered with the method-not-found error and HTTP 404.      *)
(***************************************************************************)
UnsupportedMethod(s) ==
  /\ WellFormed(s)
  /\ ~Nullish(Payload(s))
  /\ Prop(Payload(s), "method") \notin {Str("listTools"), Str("callTool")}

UnsupportedMethodMessage(s) == "Unsupported method: " \o ToStr(Prop(Payload(s), "method"))

C10_MethodNotFoundIs404 ==
  worker = "ts" =>
    \A s \in Slots :
      UnsupportedMethod(s) =>
        /\ pc[s] = "done"
        /\ Len(responses[s]) = 1
        /\ IsErrorEnvelope(TheResponse(s), 404, UnsupportedMethodMessage(s))

(***************************************************************************)
(* C10 (amended): such a request is answered with HTTP 400 and the         *)
(* envelope {success:false, error:"Unsupported method: <method>"}, and no  *)
(* upstream call; the message is none of the "Unknown tool: <name>"        *)
(* messages, and those are given to callTool requests only.                *)
(***************************************************************************)
UnknownToolMessages == {"Unknown tool: " \o ToStr(n) : n \in Names}

C10_MethodNotFoundIs400 ==
  worker = "ts" =>
    \A s \in Slots :
      /\ UnsupportedMethod(s) =>
           /\ pc[s] = "done"
           /\ NoUpstreamCall(s)
           /\ Len(responses[s]) = 1
           /\ IsErrorEnvelope(TheResponse(s), 400, UnsupportedMethodMessage(s))
           /\ UnsupportedMethodMessage(s) \notin UnknownToolMessages
      /\ (AnsweredWithError(s) /\ TheResponse(s).body.value.error \in UnknownToolMessages) =>
           IsCallTool(s)

C10_Witness ==
  /\ worker = "ts"
  /\ UnsupportedMethod(1)
  /\ Prop(Payload(1), "method") = Str("initialize")
  /\ pc[1] = "done"
  /\ IsErrorEnvelope(TheResponse(1), 400, "Unsupported method: initialize")

(***************************************************************************)
(* C11: in src/src/index.ts a tool invocation issues at most one upstream  *)
(* call and never retries (no outcome of the call, failed or non-2xx,      *)
(* leads to a second one), and the steps of a request are ordered: the     *)
(* call is issued only by a handler whose arguments passed validation,     *)
(* entered before mochiFetch, and the response is produced only once the   *)
(* call has returned or failed.                                            *)
(***************************************************************************)
\* the arguments of a callTool request pass the named handler's validation
PassesValidation(s) ==
  LET args == ToolArgs(s) IN
  \/ Calls(s, "list_decks")
  \/ Calls(s, "list_cards") /\ Prop(args, "deckId").t = "string"
  \/ /\ Calls(s, "create_card")
     /\ Prop(args, "deckId").t = "string"
     /\ Prop(args, "front").t = "string"
     /\ Prop(args, "back").t = "string"
     /\ Prop(args, "tags").t \in {"undefined", "array"}
  \/ /\ Calls(s, "record_review")
     /\ Prop(args, "cardId").t = "string"
     /\ Prop(args, "rating").t = "string"

C11_OneCallInOrder ==
  worker = "ts" =>
    \A s \in Slots :
      /\ Len(calls[s]) <= 1
      /\ calls[s] # <<>> =>
           /\ PassesValidation(s)
           /\ Len(trace[s]) = 4
           /\ SubSeq(trace[s], 1, 2) = <<"fetch", "handleInvocation">>
           /\ trace[s][3] \in {"listDecks", "listCards", "createCard", "recordReview"}
           /\ trace[s][4] = "mochiFetch"
      /\ pc[s] = "awaiting" =>
           /\ responses[s] = <<>>
           /\ reply[s] = NoReply
           /\ \A u \in Replies : fetchResume(u).kind # "await"
      /\ reply[s] # NoReply => (pc[s] = "done" /\ Len(calls[s]) = 1)
      /\ responses[s] # <<>> => (calls[s] = <<>> \/ reply[s] # NoReply)

\* an upstream 500 was answered without a second call
C11_Witness ==
  /\ worker = "ts"
  /\ pc[1] = "done"
  /\ reply[1] = [kind |-> "response", status |-> 500, text |-> "[]"]
  /\ Len(calls[1]) = 1
  /\ Len(responses[1]) = 1
  /\ TheResponse(1).status = 400

(***************************************************************************)
(* C12 (as claimed; the code violates it): every upstream request issued   *)
(* by src/src/index.ts and by both variants of                             *)
(* src/workers/mochi-mcp-worker.js carries the Authorization header        *)
(* "Bearer " followed by MOCHI_API_KEY.                                    *)
(***************************************************************************)
C12_BearerAuthorization ==
  (worker \in {"ts", "bearer", "basic"} /\ env.MOCHI_API_KEY.t = "string") =>
    \A s \in Slots :
      \A i \in 1..Len(calls[s]) :
        calls[s][i].headers["Authorization"] = "Bearer " \o env.MOCHI_API_KEY.s

(***************************************************************************)
(* C13: in src/src/index.ts the value of MOCHI_API_KEY reaches no          *)
(* response.  Whatever the request, handling it under any other credential *)
(* gives the same response (manifest and error messages included) when the *)
(* upstream replies the same: a response produced before any upstream call *)
(* is the one fetch produces under every credential, a response produced   *)
(* after the upstream call is determined by the upstream's reply, and the  *)
(* upstream request differs between credentials in its Authorization      *)
(* header only.                                                            *)
(***************************************************************************)
WithoutAuthorization(c) ==
  [c EXCEPT !.headers = [h \in (DOMAIN c.headers) \ {"Authorization"} |-> c.headers[h]]]

C13_ResponsesIndependentOfKey ==
  worker = "ts" =>
    \A s \in Slots :
      Handled(s) =>
        \A e2 \in Envs :
          LET o == fetch(request[s], e2) IN
          /\ o.kind = "return" =>
               /\ pc[s] = "done"
               /\ calls[s] = <<>>
               /\ responses[s] = <<o.value>>
          /\ o.kind = "await" =>
               /\ Len(calls[s]) = 1
               /\ WithoutAuthorization(calls[s][1]) = WithoutAuthorization(o.call)
               /\ calls[s][1].headers["Authorization"] = "Bearer " \o ToStr(env.MOCHI_API_KEY)
               /\ pc[s] = "done" => responses[s] = <<fetchResume(reply[s]).value>>
          /\ o.kind # "throw"

\* the manifest served under sk_A is the manifest served under sk_B
C13_Witness ==
  /\ worker = "ts"
  /\ env.MOCHI_API_KEY = Str("sk_A")
  /\ pc[1] = "done"
  /\ request[1].pathname = "/.well-known/mcp.json"
  /\ responses[1] = << fetch(request[1], [MOCHI_API_KEY |-> Str("sk_B")]).value >>
  /\ TheResponse(1).body.value.auth.type = "bearer"

(***************************************************************************)
(* C14: in the CORS-enabled worker (second variant of                      *)
(* src/workers/mochi-mcp-worker.js and the bundle src/unnamed/part_000)    *)
(* every response returned by fetch carries Access-Control-Allow-Origin:   *)
(* *, Access-Control-Allow-Methods: GET, POST, OPTIONS and                 *)
(* Access-Control-Allow-Headers: Content-Type, Authorization: successes,   *)
(* the 400 of a handler failure, the 400 of invalid JSON, the 404, the     *)
(* manifest and the bundle's 500; an OPTIONS request is answered with them *)
(* without entering the dispatcher and without an upstream call.           *)
(***************************************************************************)
HasCorsHeaders(r) ==
  /\ {"Access-Control-Allow-Origin", "Access-Control-Allow-Methods",
      "Access-Control-Allow-Headers"} \subseteq DOMAIN r.headers
  /\ r.headers["Access-Control-Allow-Origin"] = "*"
  /\ r.headers["Access-Control-Allow-Methods"] = "GET, POST, OPTIONS"
  /\ r.headers["Access-Control-Allow-Headers"] = "Content-Type, Authorization"

C14_EveryResponseHasCors ==
  worker \in {"basic", "bundle"} =>
    /\ \A s \in Slots :
         /\ ~rejected[s]
         /\ pc[s] = "done" => Len(responses[s]) = 1
         /\ \A i \in 1..Len(responses[s]) : HasCorsHeaders(responses[s][i])
         /\ (Handled(s) /\ request[s].method = "OPTIONS") =>
              /\ pc[s] = "done"
              /\ TheResponse(s).status = 204
              /\ trace[s] = <<"fetch">>
              /\ NoUpstreamCall(s)
    /\ worker = "bundle" =>
         LET r == fetchCatchBundle(Throw(TypeError("Invalid URL"), <<"fetch">>)) IN
         /\ r.kind = "return"
         /\ r.value.status = 500
         /\ HasCorsHeaders(r.value)

\* a handler failure answered with the error envelope and the CORS headers
C14_Witness ==
  /\ worker = "basic"
  /\ IsCallTool(1)
  /\ AnsweredWithError(1)
  /\ TheResponse(1).status = 400
  /\ HasCorsHeaders(TheResponse(1))

(***************************************************************************)
(* C15: in src/src/index.ts, for create_card with string deckId, front and *)
(* back: a tags value that is present and not an array is a validation     *)
(* error with no upstream call; with tags absent the upstream POST body    *)
(* carries "tags":[]; an array is forwarded as it is.                      *)
(***************************************************************************)
RECURSIVE C15_Elements(_)
C15_Elements(a) ==
  IF a = <<>> THEN ""
  ELSE "\"" \o a[1] \o "\"" \o (IF Len(a) > 1 THEN "," ELSE "") \o C15_Elements(Tail(a))

C15_Body(front, back, tagList) ==
  Str("{\"front\":\"" \o front \o "\",\"back\":\"" \o back
      \o "\",\"tags\":[" \o C15_Elements(tagList) \o "]}")

WellTypedCreateCard(s) ==
  /\ Calls(s, "create_card")
  /\ Prop(ToolArgs(s), "deckId").t = "string"
  /\ Prop(ToolArgs(s), "front").t = "string"
  /\ Prop(ToolArgs(s), "back").t = "string"

C15_CreateCardTags ==
  worker = "ts" =>
    \A s \in Slots :
      WellTypedCreateCard(s) =>
        LET args == ToolArgs(s)
            tags == Prop(args, "tags")
        IN IF tags.t \in {"undefined", "array"}
             THEN /\ Len(calls[s]) = 1
                  /\ calls[s][1].method = "POST"
                  /\ calls[s][1].path = "/decks/" \o Prop(args, "deckId").s \o "/cards"
                  /\ calls[s][1].body =
                       C15_Body(Prop(args, "front").s, Prop(args, "back").s,
                                IF tags.t = "array" THEN tags.a ELSE <<>>)
             ELSE /\ AnsweredWithError(s)
                  /\ TheResponse(s).status = 400
                  /\ NoUpstreamCall(s)
                  /\ TheResponse(s).body.value.error
                       = "create_card tags must be an array of strings if provided"

\* tags absent: the body carries the empty list
C15_Witness ==
  /\ worker = "ts"
  /\ WellTypedCreateCard(1)
  /\ ToolArgs(1) = Obj([deckId |-> Str("d1"), front |-> Str("Q"), back |-> Str("A"),
                        tags |-> Undefined])
  /\ Len(calls[1]) = 1
  /\ calls[1][1].body = Str("{\"front\":\"Q\",\"back\":\"A\",\"tags\":[]}")

(***************************************************************************)
(* C16: in src/src/index.ts, record_review validates its required          *)
(* arguments before any upstream call: an invocation whose rating is not   *)
(* one of again, hard, good, easy, or whose cardId is not a string, is     *)
(* rejected with a validation error and issues no upstream call.           *)
(***************************************************************************)
Ratings == {"again", "hard", "good", "easy"}

InvalidRecordReview(s) ==
  /\ Calls(s, "record_review")
  /\ \/ Prop(ToolArgs(s), "cardId").t # "string"
     \/ Prop(ToolArgs(s), "rating") \notin {Str(r) : r \in Ratings}

C16_RecordReviewValidatesRating ==
  worker = "ts" =>
    \A s \in Slots :
      InvalidRecordReview(s) =>
        /\ AnsweredWithError(s)
        /\ NoUpstreamCall(s)

(***************************************************************************)
(* C17: the worker speaks JSON-RPC on POST /mcp: a request with method     *)
(* initialize, tools/list or tools/call and id i is answered with a        *)
(* JSON-RPC response carrying the same id i, and tools/list returns        *)
(* result.tools equal to the registry.                                     *)
(***************************************************************************)
RpcMethods == {Str("initialize"), Str("tools/list"), Str("tools/call")}

IsRpcRequest(s) ==
  /\ WellFormed(s)
  /\ request[s].pathname = "/mcp"
  /\ Prop(Payload(s), "jsonrpc") = Str("2.0")
  /\ Prop(Payload(s), "method") \in RpcMethods

C17_JsonRpcOnMcp ==
  \A s \in Slots :
    (IsRpcRequest(s) /\ pc[s] = "done") =>
      /\ Len(responses[s]) = 1
      /\ TheResponse(s).body.json
      /\ "id" \in DOMAIN TheResponse(s).body.value
      /\ TheResponse(s).body.value.id = Prop(Payload(s), "id")
      /\ Prop(Payload(s), "method") = Str("tools/list") =>
           /\ "result" \in DOMAIN TheResponse(s).body.value
           /\ TheResponse(s).body.value.result.tools = registry

(***************************************************************************)
(* C18: dispatch in src/src/index.ts is stateless under any interleaving   *)
(* of concurrent requests: the upstream request an invocation issues and   *)
(* the response it gives are those of its own request, the environment and *)
(* the upstream's reply to it, whatever was handled before and whatever is *)
(* in flight beside it; two invocations given the same request and the     *)
(* same reply agree; the tool registry, the only shared state, is never    *)
(* changed.                                                                *)
(***************************************************************************)
\* slot s holds what its own request and its own reply alone determine
OwnOutcome(s) ==
  LET o == Start(request[s]) IN
  IF reply[s] = NoReply
    THEN /\ calls[s] = (IF o.kind = "await" THEN <<o.call>> ELSE <<>>)
         /\ responses[s] = (IF o.kind = "return" THEN <<o.value>> ELSE <<>>)
         /\ pc[s] = (IF o.kind = "await" THEN "awaiting" ELSE "done")
    ELSE LET r == Resume(reply[s]) IN
         /\ o.kind = "await"
         /\ calls[s] = <<o.call>> \o (IF r.kind = "await" THEN <<r.call>> ELSE <<>>)
         /\ responses[s] = (IF r.kind = "return" THEN <<r.value>> ELSE <<>>)

C18_StatelessUnderInterleaving ==
  worker = "ts" =>
    /\ registry = tools
    /\ \A s \in Slots : Handled(s) => OwnOutcome(s)
    /\ \A s, t \in Slots :
         (Handled(s) /\ Handled(t) /\ request[s] = request[t]) =>
           /\ calls[s] = calls[t]
           /\ (pc[s] = "done" /\ pc[t] = "done" /\ reply[s] = reply[t]) =>
                responses[s] = responses[t]

\* listTools answered in full while another invocation awaits the upstream
C18_Witness ==
  /\ worker = "ts"
  /\ pc[1] = "awaiting"
  /\ Len(calls[1]) = 1
  /\ IsListTools(2)
  /\ pc[2] = "done"
  /\ TheResponse(2).body.value.data.tools = tools

(***************************************************************************)
(* C19: in src/src/index.ts the envelope's success flag and the HTTP       *)
(* status agree.  The response is either HTTP 200 with body                *)
(* {success:true, data} or HTTP 400 with body {success:false, error}:      *)
(* never success:true with another status, success:false with 200, or both *)
(* data and error.                                                         *)
(***************************************************************************)
IsEnvelope(r) ==
  /\ r.body.json
  /\ "success" \in DOMAIN r.body.value
  /\ \/ /\ r.status = 200
        /\ DOMAIN r.body.value = {"success", "data"}
        /\ r.body.value.success = TRUE
     \/ /\ r.status = 400
        /\ DOMAIN r.body.value = {"success", "error"}
        /\ r.body.value.success = FALSE

EnvelopeOrPending(s) ==
  /\ ~rejected[s]
  /\ Len(responses[s]) = (IF pc[s] = "done" THEN 1 ELSE 0)
  /\ pc[s] = "done" => IsEnvelope(TheResponse(s))

\* as claimed: for every POST carrying well-formed JSON
C19_EnvelopeForEveryPost ==
  worker = "ts" =>
    \A s \in Slots :
      (Handled(s) /\ request[s].method = "POST" /\ request[s].body.json) =>
        EnvelopeOrPending(s)

\* C19 as amended: for every POST carrying well-formed JSON to a path other
\* than /.well-known/mcp.json, the response is one of the two envelopes and
\* flag and status agree
C19_EnvelopeAgreesWithStatus ==
  worker = "ts" =>
    \A s \in Slots : WellFormed(s) => EnvelopeOrPending(s)

\* an upstream failure reported as {success:false, error} with HTTP 400
C19_Witness ==
  /\ worker = "ts"
  /\ WellFormed(1)
  /\ Len(calls[1]) = 1
  /\ reply[1] = [kind |-> "response", status |-> 500, text |-> "server exploded"]
  /\ pc[1] = "done"
  /\ TheResponse(1).status = 400
  /\ TheResponse(1).body.value.success = FALSE

(***************************************************************************)
(* C20: src/src/index.ts and the Bearer variant of the JavaScript worker   *)
(* are equivalent on schema-conforming input: for every listTools request  *)
(* and every callTool request whose arguments conform to the tool's        *)
(* declared schema (deckId, front, back, cardId, rating strings; page,     *)
(* pageSize numbers including 0; tags absent or an array), both issue the  *)
(* same upstream request (method, path with query string, body) and,       *)
(* given the same upstream reply, return the same status and envelope.     *)
(***************************************************************************)
IsString(v) == v.t = "string"
OptionalNumber(v) == v.t \in {"undefined", "number"}

SchemaConforming(s) ==
  \/ IsListTools(s)
  \/ Calls(s, "list_decks")
  \/ /\ Calls(s, "list_cards")
     /\ IsString(Prop(ToolArgs(s), "deckId"))
     /\ OptionalNumber(Prop(ToolArgs(s), "page"))
     /\ OptionalNumber(Prop(ToolArgs(s), "pageSize"))
  \/ /\ Calls(s, "create_card")
     /\ IsString(Prop(ToolArgs(s), "deckId"))
     /\ IsString(Prop(ToolArgs(s), "front"))
     /\ IsString(Prop(ToolArgs(s), "back"))
     /\ Prop(ToolArgs(s), "tags").t \in {"undefined", "array"}
  \/ /\ Calls(s, "record_review")
     /\ IsString(Prop(ToolArgs(s), "cardId"))
     /\ IsString(Prop(ToolArgs(s), "rating"))

\* the parts of an upstream request the two workers are compared on
Wire(c) == [method |-> c.method, path |-> c.path, body |-> c.body]

\* what the Bearer variant does with the request and the reply of slot s
\* is what index.ts did
AgreesWithBearer(s) ==
  LET b == fetchBearer(request[s], env) IN
  /\ (b.kind = "await") = (calls[s] # <<>>)
  /\ b.kind = "await" => Wire(b.call) = Wire(calls[s][1])
  /\ (b.kind = "return" /\ pc[s] = "done") => responses[s] = <<b.value>>
  /\ (b.kind = "await" /\ pc[s] = "done") =>
       LET r == fetchResumeBearer(reply[s]) IN
       /\ r.kind = "return"
       /\ responses[s] = <<r.value>>

C20_TsEquivalentToBearer ==
  worker = "ts" =>
    \A s \in Slots : (Handled(s) /\ SchemaConforming(s)) => AgreesWithBearer(s)

====
